---- MODULE Spec2Model ----
(***************************************************************************)
(* A model of CleanerCSV (src/data_cleaner.py), of the command-line driver  *)
(* run_command_line (src/app_nogui.py) and of the window that runs the     *)
(* same calls in a LongTaskThread (src/data_cleaner_ui.py).                *)
(*                                                                         *)
(* The table (a pandas DataFrame) is a list of column names, a list of     *)
(* rows and the list of their row labels (the index); a cell is a record   *)
(* whose field k is the kind of the value held:                            *)
(* "int", "float", "nan" (the missing value), "str", "dt" (a timestamp)    *)
(* and "nat" (the missing timestamp).  The pandas conversions are          *)
(* operators over columns of such cells.                                   *)
(***************************************************************************)
EXTENDS Integers, Sequences, FiniteSets, TLC

\* ------------------------------------------------------------------ bounds
\* the largest number of data rows of an ingested table
MaxRows == 2

\* ------------------------------------------------------------------- cells
I64(n) == [k |-> "int", n |-> n, s |-> ""]
F64(n) == [k |-> "float", n |-> n, s |-> ""]
NaN == [k |-> "nan", n |-> 0, s |-> ""]
Str(t) == [k |-> "str", n |-> 0, s |-> t]
Dt(n) == [k |-> "dt", n |-> n, s |-> ""]
NaT == [k |-> "nat", n |-> 0, s |-> ""]

\* the int64 view of the missing timestamp (numpy's iNaT, -2^63), held as an
\* integer below every other value of the model
iNaT == -1000000

Digits == <<"0", "1", "2", "3", "4", "5", "6", "7", "8", "9">>

\* str(n) of an integer, str(x) of a float with an integral value
IntText(n) == IF n \in 0..9 THEN Digits[n + 1] ELSE "-9223372036854775808"
FloatText(n) == IntText(n) \o ".0"

\* the numbers a text of the model can stand for
Numbers == 0..9 \cup {iNaT}

IsIntText(t) == \E n \in Numbers : IntText(n) = t
IsFloatText(t) == \E n \in Numbers : FloatText(n) = t
IntOf(t) == CHOOSE n \in Numbers : IntText(n) = t \/ FloatText(n) = t

\* a cell is missing for dropna: NaN or NaT
IsNA(c) == c.k \in {"nan", "nat"}

\* ------------------------------------------------------------ the DataFrame
\* df.columns is the list of column names, df.rows the list of rows, each a
\* list of cells in column order, df.index the list of the rows' labels
HasCol(d, col) == \E i \in 1..Len(d.columns) : d.columns[i] = col
ColIdx(d, col) == CHOOSE i \in 1..Len(d.columns) : d.columns[i] = col

\* df[col]: the column as a list of cells
Column(d, col) == [r \in 1..Len(d.rows) |-> d.rows[r][ColIdx(d, col)]]

\* df[col] = cells
SetColumn(d, col, cells) ==
    [d EXCEPT !.rows = [r \in 1..Len(d.rows) |->
                          [d.rows[r] EXCEPT ![ColIdx(d, col)] = cells[r]]]]

\* the rows of s whose index is in keep, in order
RECURSIVE KeepRows(_, _)
KeepRows(s, keep) ==
    IF s = <<>> THEN <<>>
    ELSE LET n == Len(s)
             front == KeepRows(SubSeq(s, 1, n - 1), keep)
         IN  IF n \in keep THEN Append(front, s[n]) ELSE front

\* df[mask], and the in-place drops of rows: the rows whose position is in
\* keep, with their labels
TakeRows(d, keep) ==
    [d EXCEPT !.rows = KeepRows(d.rows, keep), !.index = KeepRows(d.index, keep)]

\* ------------------------------------------------------- pandas conversions
\* pd.read_csv's type inference for one column of raw texts ("" is an empty
\* field): all integers -> int64; integers and empty fields -> float64 with
\* NaN; any other text -> object, the texts kept and empty fields NaN
InferColumn(texts) ==
    LET n == Len(texts)
        allnum == \A r \in 1..n : texts[r] = "" \/ IsIntText(texts[r])
        anyempty == \E r \in 1..n : texts[r] = ""
    IN  [r \in 1..n |->
            IF texts[r] = "" THEN NaN
            ELSE IF ~allnum THEN Str(texts[r])
            ELSE IF anyempty THEN F64(IntOf(texts[r]))
            ELSE I64(IntOf(texts[r]))]

read_csv(columns, raw) ==
    LET nr == Len(raw)
        nc == Len(columns)
        col(c) == InferColumn([r \in 1..nr |-> raw[r][c]])
    IN  [columns |-> columns,
         rows |-> [r \in 1..nr |-> [c \in 1..nc |-> col(c)[r]]],
         index |-> [r \in 1..nr |-> r - 1]]

\* pd.to_numeric(column, errors="coerce"): a numeric column is returned as it
\* is, a datetime column as its int64 view; in an object column every text
\* is parsed, an unparsable one becomes NaN, and the result is float64 as
\* soon as it holds a NaN or a non-integral text
to_numeric(cells) ==
    LET n == Len(cells)
        isobj == \E r \in 1..n : cells[r].k = "str"
        isdt == \E r \in 1..n : cells[r].k \in {"dt", "nat"}
        ok(c) == c.k = "str" /\ (IsIntText(c.s) \/ IsFloatText(c.s))
        asfloat == \E r \in 1..n : ~(cells[r].k = "str" /\ IsIntText(cells[r].s))
    IN  IF isobj
        THEN [r \in 1..n |->
                IF ~ok(cells[r]) THEN NaN
                ELSE IF asfloat THEN F64(IntOf(cells[r].s))
                ELSE I64(IntOf(cells[r].s))]
        ELSE IF isdt
        THEN [r \in 1..n |->
                IF cells[r].k = "dt" THEN I64(cells[r].n) ELSE I64(iNaT)]
        ELSE cells

\* the text a cell is parsed from by to_datetime with a format
CellText(c) ==
    CASE c.k = "int" -> IntText(c.n)
      [] c.k = "float" -> FloatText(c.n)
      [] c.k = "str" -> c.s
      [] OTHER -> "nan"

\* strptime: the format "%d" parses a day of the month (the timestamp is
\* held as that day); no text of the model matches any other format
ParsesAs(form, t) == form = "%d" /\ IsIntText(t) /\ IntOf(t) \in 1..9

\* pd.to_datetime(column, format=form, errors="coerce")
to_datetime(cells, form) ==
    [r \in 1..Len(cells) |->
        IF cells[r].k \in {"dt", "nat"} THEN cells[r]
        ELSE IF cells[r].k = "nan" THEN NaT
        ELSE IF ParsesAs(form, CellText(cells[r])) THEN Dt(IntOf(CellText(cells[r])))
        ELSE NaT]

\* column.astype(int | float | str): the exception the cast raises ("" when
\* it succeeds).  int("x"), int("1.0"), int(nan) and float("x") are
\* ValueErrors; a datetime column cannot be cast to float (TypeError)
AsTypeError(cells, type_str) ==
    LET n == Len(cells)
    IN  CASE type_str = "int" ->
               IF \E r \in 1..n : \/ cells[r].k = "nan"
                                  \/ cells[r].k = "str" /\ ~IsIntText(cells[r].s)
               THEN "ValueError" ELSE ""
          [] type_str = "float" ->
               IF \E r \in 1..n : cells[r].k \in {"dt", "nat"} THEN "TypeError"
               ELSE IF \E r \in 1..n :
                          /\ cells[r].k = "str"
                          /\ ~IsIntText(cells[r].s)
                          /\ ~IsFloatText(cells[r].s)
                          /\ cells[r].s # "nan"
               THEN "ValueError" ELSE ""
          [] OTHER -> ""

\* the cast's result when it succeeds
AsTypeCell(c, type_str) ==
    CASE type_str = "int" ->
            (CASE c.k = "str" -> I64(IntOf(c.s))
               [] c.k = "nat" -> I64(iNaT)
               [] OTHER -> I64(c.n))
      [] type_str = "float" ->
            (CASE c.k = "str" -> IF c.s = "nan" THEN NaN ELSE F64(IntOf(c.s))
               [] c.k = "nan" -> NaN
               [] OTHER -> F64(c.n))
      [] OTHER ->
            (CASE c.k = "int" -> Str(IntText(c.n))
               [] c.k = "float" -> Str(FloatText(c.n))
               [] c.k = "nan" -> Str("nan")
               [] c.k = "dt" -> Str("1900-01-0" \o IntText(c.n))
               [] c.k = "nat" -> Str("NaT")
               [] OTHER -> c)

astype(cells, type_str) == [r \in 1..Len(cells) |-> AsTypeCell(cells[r], type_str)]

\* ------------------------------------------------------------ configuration
\* the built-in default specification
DEFAULT_CFG ==
    [input_file |-> "data/my_data.csv",
     output_file |-> "data/my_data_clean1.csv",
     delimiter_in |-> ",",
     delimiter_out |-> ",",
     input_file_profile |-> "profiles/input_file.html",
     output_file_profile |-> "profiles/output_file.html",
     summary_file |-> "",
     drop_repeat_headers |-> TRUE,
     drop_duplicates |-> TRUE,
     drop_na |-> TRUE,
     clean_types |-> TRUE,
     export_output_file |-> TRUE,
     str_col |-> <<"Product", "Purchase Address">>,
     float_col |-> <<>>,
     int_col |-> <<>>,
     numeric_col |-> <<"Order ID", "Quantity Ordered", "Price Each">>,
     datetime_col |-> <<"Order Date">>,
     datetime_format |-> <<"%m/%d/%y %H:%M">>,
     drop_col |-> <<>>,
     quantile_ouliers_col |-> <<>>]

Keys == DOMAIN DEFAULT_CFG

\* self.cfg.get(key) is None: the key is not in the loaded dict
IsNone(c, key) == key \notin DOMAIN c

\* the truth value Python gives self.cfg.get(key) for a boolean option
Truthy(c, key) == ~IsNone(c, key) /\ c[key] = TRUE

\* "not self.cfg.get(key)" for a list option: None or the empty list
Empty(c, key) == IsNone(c, key) \/ c[key] = <<>>

\* logger.<level>(message): the audit trail is the list of (level, message)
Log(lg, level, msg) == Append(lg, <<level, msg>>)

\* what a stage leaves behind: the table, the Mutation flag, the audit trail
\* and the exception it raised ("" when it returned)
Result(d, ch, lg, exc) == [df |-> d, df_changed |-> ch, log |-> lg, exc |-> exc]

\* ------------------------------------------------------------------- stages
\* a header test that looks for the column names anywhere in the row
IsHeaderRowAnyColumn(d, row) ==
    \E i, j \in 1..Len(d.columns) : row[i].k = "str" /\ row[i].s = d.columns[j]

\* df.eq(df.columns).any(axis=1): some cell of the row equals the name of
\* its own column
IsHeaderRow(d, row) ==
    \E i \in 1..Len(d.columns) : row[i].k = "str" /\ row[i].s = d.columns[i]

\* a clean_headers that sets the Mutation flag to whether it removed a row
clean_headers_assign(c, d, ch, lg) ==
    IF Truthy(c, "drop_repeat_headers")
    THEN LET t == TakeRows(d, {r \in 1..Len(d.rows) : ~IsHeaderRow(d, d.rows[r])})
         IN  Result(t, t # d, Log(lg, "info", "removing dupplicate headers"), "")
    ELSE Result(d, ch, lg, "")

clean_headers(c, d, ch, lg) ==
    IF Truthy(c, "drop_repeat_headers")
    THEN Result(TakeRows(d, {r \in 1..Len(d.rows) : ~IsHeaderRow(d, d.rows[r])}),
                TRUE, Log(lg, "info", "removing dupplicate headers"), "")
    ELSE Result(d, ch, lg, "")

\* a clean_drop_dupplicates that keeps the first occurrence
clean_drop_dupplicates_first(c, d, ch, lg) ==
    IF Truthy(c, "drop_duplicates")
    THEN Result(TakeRows(d, {r \in 1..Len(d.rows) :
                        \A q \in 1..(r - 1) : d.rows[q] # d.rows[r]}),
                TRUE, Log(lg, "info", "removing dupplicate rows"), "")
    ELSE Result(d, ch, lg, "")

clean_drop_dupplicates(c, d, ch, lg) ==
    IF Truthy(c, "drop_duplicates")
    THEN Result(TakeRows(d, {r \in 1..Len(d.rows) :
                        \A q \in (r + 1)..Len(d.rows) : d.rows[q] # d.rows[r]}),
                TRUE, Log(lg, "info", "removing dupplicate rows"), "")
    ELSE Result(d, ch, lg, "")

\* the loop of clean_numeric_columns from its i-th column on; df[col] of an
\* absent column is a KeyError, which ends the loop and the stage
RECURSIVE NumericLoop(_, _, _, _)
NumericLoop(cols, i, d, lg) ==
    IF i > Len(cols) THEN [df |-> d, log |-> lg, exc |-> ""]
    ELSE LET lg1 == Log(lg, "info", "running to_numeric")
         IN  IF ~HasCol(d, cols[i])
             THEN [df |-> d, log |-> lg1, exc |-> "KeyError"]
             ELSE NumericLoop(cols, i + 1,
                      SetColumn(d, cols[i], to_numeric(Column(d, cols[i]))), lg1)

clean_numeric_columns(c, d, ch, lg) ==
    IF ~Truthy(c, "clean_types") THEN Result(d, ch, lg, "")
    ELSE IF IsNone(c, "numeric_col") THEN Result(d, TRUE, lg, "TypeError")
    ELSE LET r == NumericLoop(c["numeric_col"], 1, d, lg)
         IN  Result(r.df, TRUE, r.log, r.exc)

\* the loop of run_astype_conversion: only a ValueError of the cast is caught
RECURSIVE AstypeLoop(_, _, _, _, _)
AstypeLoop(cols, i, type_str, d, lg) ==
    IF i > Len(cols) THEN [df |-> d, log |-> lg, exc |-> ""]
    ELSE LET lg1 == Log(lg, "info", "running astype")
         IN  IF ~HasCol(d, cols[i])
             THEN [df |-> d, log |-> lg1, exc |-> "KeyError"]
             ELSE LET cells == Column(d, cols[i])
                      err == AsTypeError(cells, type_str)
                  IN  IF err = ""
                      THEN AstypeLoop(cols, i + 1, type_str,
                               SetColumn(d, cols[i], astype(cells, type_str)), lg1)
                      ELSE IF err = "ValueError"
                      THEN AstypeLoop(cols, i + 1, type_str, d,
                               Log(lg1, "error", "converting column failed"))
                      ELSE [df |-> d, log |-> lg1, exc |-> err]

\* the key run_astype_conversion reads its columns from
ColsChoice(type_str) ==
    CASE type_str = "int" -> "int_col"
      [] type_str = "float" -> "float_col"
      [] OTHER -> "str_col"

run_astype_conversion(c, d, ch, lg, type_str) ==
    IF ~Truthy(c, "clean_types") THEN Result(d, ch, lg, "")
    ELSE IF Empty(c, ColsChoice(type_str)) THEN Result(d, ch, lg, "")
    ELSE LET r == AstypeLoop(c[ColsChoice(type_str)], 1, type_str, d, lg)
         IN  Result(r.df, TRUE, r.log, r.exc)

\* the loop of clean_datetime_columns over zip(cols, forms)
RECURSIVE DatetimeLoop(_, _, _, _, _)
DatetimeLoop(cols, forms, i, d, lg) ==
    IF i > Len(cols) \/ i > Len(forms) THEN [df |-> d, log |-> lg, exc |-> ""]
    ELSE LET lg1 == Log(lg, "info", "running to_datetime")
         IN  IF ~HasCol(d, cols[i])
             THEN [df |-> d, log |-> lg1, exc |-> "KeyError"]
             ELSE DatetimeLoop(cols, forms, i + 1,
                      SetColumn(d, cols[i],
                                to_datetime(Column(d, cols[i]), forms[i])), lg1)

\* a clean_datetime_columns that pairs what it can when the lengths differ
clean_datetime_columns_zip(c, d, ch, lg) ==
    IF ~Truthy(c, "clean_types") \/ Empty(c, "datetime_col")
    THEN Result(d, ch, lg, "")
    ELSE IF IsNone(c, "datetime_format") THEN Result(d, ch, lg, "TypeError")
    ELSE LET r == DatetimeLoop(c["datetime_col"], c["datetime_format"], 1, d,
                     IF Len(c["datetime_col"]) # Len(c["datetime_format"])
                     THEN Log(lg, "warning", "skipping datetime step") ELSE lg)
         IN  Result(r.df, TRUE, r.log, r.exc)

clean_datetime_columns(c, d, ch, lg) ==
    IF ~Truthy(c, "clean_types") \/ Empty(c, "datetime_col")
    THEN Result(d, ch, lg, "")
    ELSE IF IsNone(c, "datetime_format") THEN Result(d, ch, lg, "TypeError")
    ELSE IF Len(c["datetime_col"]) # Len(c["datetime_format"])
    THEN Result(d, ch, Log(lg, "warning", "skipping datetime step"), "")
    ELSE LET r == DatetimeLoop(c["datetime_col"], c["datetime_format"], 1, d, lg)
         IN  Result(r.df, TRUE, r.log, r.exc)

\* a clean_drop_na that forgets the Mutation flag
clean_drop_na_no_flag(c, d, ch, lg) ==
    IF ~Truthy(c, "drop_na") THEN Result(d, ch, lg, "")
    ELSE Result(TakeRows(d, {r \in 1..Len(d.rows) :
                        \E i \in 1..Len(d.columns) : ~IsNA(d.rows[r][i])}),
                ch, Log(lg, "info", "dropping NaN and NaT rows"), "")

clean_drop_na(c, d, ch, lg) ==
    IF ~Truthy(c, "drop_na") THEN Result(d, ch, lg, "")
    ELSE Result(TakeRows(d, {r \in 1..Len(d.rows) :
                        \E i \in 1..Len(d.columns) : ~IsNA(d.rows[r][i])}),
                TRUE, Log(lg, "info", "dropping NaN and NaT rows"), "")

\* df.drop(labels=col, axis="columns")
DropColumn(d, col) ==
    LET keep == {i \in 1..Len(d.columns) : d.columns[i] # col}
    IN  [columns |-> KeepRows(d.columns, keep),
         rows |-> [r \in 1..Len(d.rows) |-> KeepRows(d.rows[r], keep)],
         index |-> d.index]

RECURSIVE DropLoop(_, _, _, _)
DropLoop(cols, i, d, lg) ==
    IF i > Len(cols) THEN [df |-> d, log |-> lg]
    ELSE IF HasCol(d, cols[i])
    THEN DropLoop(cols, i + 1, DropColumn(d, cols[i]), lg)
    ELSE DropLoop(cols, i + 1, d, Log(lg, "warning", "column not in the dataframe"))

drop_columns(c, d, ch, lg) ==
    IF Empty(c, "drop_col") THEN Result(d, ch, lg, "")
    ELSE LET r == DropLoop(c["drop_col"], 1, d,
                           Log(lg, "info", "dropping columns form the dataframe"))
         IN  Result(r.df, ch, r.log, "")

\* the numbers a column's quantile is computed over: NaN and NaT are skipped,
\* a timestamp counts by its value
Values(cells) ==
    LET keep == {r \in 1..Len(cells) : ~IsNA(cells[r])}
        kept == KeepRows(cells, keep)
    IN  [i \in 1..Len(kept) |-> kept[i].n]

\* the k-th smallest of vals, k in 1..Len(vals)
Kth(vals, k) ==
    CHOOSE v \in {vals[i] : i \in 1..Len(vals)} :
        /\ Cardinality({i \in 1..Len(vals) : vals[i] < v}) < k
        /\ Cardinality({i \in 1..Len(vals) : vals[i] <= v}) >= k

\* 4 * Series.quantile(num / 4) with pandas' linear interpolation, for a
\* non-empty vals: the position (n - 1) * num / 4 lies between two order
\* statistics
Quantile4(vals, num) ==
    LET n == Len(vals)
        pos4 == (n - 1) * num
        lo == Kth(vals, (pos4 \div 4) + 1)
        hi == Kth(vals, IF (pos4 \div 4) + 2 <= n THEN (pos4 \div 4) + 2 ELSE n)
    IN  4 * lo + (hi - lo) * (pos4 % 4)

\* the conventional interquartile range, Q3 - Q1
IQR4Conventional(Q1x4, Q3x4) == Q3x4 - Q1x4

\* IQR = Q1 - Q3, four times over
IQR4(Q1x4, Q3x4) == Q1x4 - Q3x4

\* valid_rows of one column: the rows with min_valid <= value <= max_valid,
\* all three held eight times over; a comparison with NaN is false
ValidRows(cells) ==
    LET vals == Values(cells)
        Q1 == Quantile4(vals, 1)
        Q3 == Quantile4(vals, 3)
        IQR == IQR4(Q1, Q3)
        min_valid == 2 * Q1 - 3 * IQR
        max_valid == 2 * Q3 + 3 * IQR
    IN  IF vals = <<>> THEN {}
        ELSE {r \in 1..Len(cells) :
                /\ ~IsNA(cells[r])
                /\ 8 * cells[r].n >= min_valid
                /\ 8 * cells[r].n <= max_valid}

\* a clean_quantile_outliers that computes every column's bounds over the
\* table it was given and filters once
QuantileLoopAtOnce(cols, i, d) ==
    [df |-> TakeRows(d, {r \in 1..Len(d.rows) :
                \A k \in i..Len(cols) : r \in ValidRows(Column(d, cols[k]))}),
     exc |-> ""]

\* the loop of clean_quantile_outliers: an absent column is a KeyError, the
\* quantile of a column of texts a TypeError
RECURSIVE QuantileLoop(_, _, _)
QuantileLoop(cols, i, d) ==
    IF i > Len(cols) THEN [df |-> d, exc |-> ""]
    ELSE IF ~HasCol(d, cols[i]) THEN [df |-> d, exc |-> "KeyError"]
    ELSE LET cells == Column(d, cols[i])
         IN  IF \E r \in 1..Len(cells) : cells[r].k = "str"
             THEN [df |-> d, exc |-> "TypeError"]
             ELSE QuantileLoop(cols, i + 1, TakeRows(d, ValidRows(cells)))

clean_quantile_outliers(c, d, ch, lg) ==
    IF Empty(c, "quantile_ouliers_col") THEN Result(d, ch, lg, "")
    ELSE LET r == QuantileLoop(c["quantile_ouliers_col"], 1, d)
         IN  Result(r.df, ch, lg, r.exc)

\* ----------------------------------------------------- profiling and egress
\* an html_profile with the two targets exchanged
ProfileKeyExchanged(changed) ==
    IF changed THEN "input_file_profile" ELSE "output_file_profile"

\* the key html_profile reads its target from
ProfileKey(changed) ==
    IF ~changed THEN "input_file_profile" ELSE "output_file_profile"

\* local_path / name
Join(dir, name) == <<dir, name>>

\* html_profile: the file written and returned, the audit trail and the
\* exception (local_path / None is a TypeError)
html_profile(c, dir, changed, lg) ==
    IF IsNone(c, ProfileKey(changed))
    THEN [file |-> <<>>, log |-> lg, exc |-> "TypeError"]
    ELSE [file |-> Join(dir, c[ProfileKey(changed)]),
          log |-> Log(Log(lg, "info",
                          IF ~changed THEN "profiling source data"
                          ELSE "cleaned data - profiling"),
                      "info", "profiling finished"),
          exc |-> ""]

\* csv_write_clean: the table written, without its index (ok: the target can
\* be written)
csv_write_clean(c, dir, d, lg, ok) ==
    IF ~Truthy(c, "export_output_file")
    THEN [out |-> <<>>, log |-> Log(lg, "warning", "cleaned data was not stored"),
          exc |-> ""]
    ELSE IF IsNone(c, "output_file")
    THEN [out |-> <<>>, log |-> lg, exc |-> "TypeError"]
    ELSE IF ~ok
    THEN [out |-> <<>>, log |-> Log(lg, "error", "failed to write CSV"),
          exc |-> "IOError"]
    ELSE [out |-> <<Join(dir, c["output_file"]),
                    [columns |-> d.columns, rows |-> d.rows]>>,
          log |-> Log(lg, "info", "processed data written"), exc |-> ""]

\* ------------------------------------------------------------- construction
\* (BASE_DIR / "default_specs.json").absolute(), and a specification file
\* somewhere else
DefaultSpecs == "default_specs.json"
UserSpecs == "specs/user.json"

\* config_file.parent
Parent(path) == IF path = DefaultSpecs THEN "." ELSE "specs"

\* create_default_config: reads default_specs.json when it exists (a
\* malformed one is a JSONDecodeError), writes DEFAULT_CFG to it otherwise
create_default_config(files) ==
    IF files[DefaultSpecs].st # "missing"
    THEN IF files[DefaultSpecs].st = "valid"
         THEN [cfg |-> files[DefaultSpecs].json, files |-> files, exc |-> ""]
         ELSE [cfg |-> <<>>, files |-> files, exc |-> "JSONDecodeError"]
    ELSE [cfg |-> DEFAULT_CFG,
          files |-> [files EXCEPT ![DefaultSpecs] =
                                      [st |-> "valid", json |-> DEFAULT_CFG]],
          exc |-> ""]

\* the try statement of __init__: json.load of config_file, the default
\* configuration when the file is missing or no JSON
LoadConfig(files, path, lg) ==
    IF files[path].st = "valid"
    THEN [cfg |-> files[path].json, cfg_file |-> path, files |-> files,
          log |-> lg, exc |-> ""]
    ELSE LET r == create_default_config(files)
         IN  [cfg |-> r.cfg, cfg_file |-> DefaultSpecs, files |-> r.files,
              log |-> IF r.exc # "" THEN lg
                      ELSE IF files[path].st = "missing"
                      THEN Log(lg, "warning", "config not found")
                      ELSE Log(lg, "warning", "config file is not valid JSON"),
              exc |-> r.exc]

\* csv_read: local_path / None is a TypeError, an unreadable source an IOError
csv_read(c, src, lg) ==
    IF IsNone(c, "input_file")
    THEN [df |-> [columns |-> <<>>, rows |-> <<>>, index |-> <<>>], log |-> lg,
          exc |-> "TypeError"]
    ELSE IF ~src.ok
    THEN [df |-> [columns |-> <<>>, rows |-> <<>>, index |-> <<>>],
          log |-> Log(lg, "error", "failed to read CSV"), exc |-> "IOError"]
    ELSE [df |-> read_csv(src.columns, src.raw),
          log |-> Log(lg, "info", "loaded data"), exc |-> ""]

\* CleanerCSV.__init__
CleanerCSV_init(files, path, src) ==
    LET l == LoadConfig(files, path, <<>>)
        lg == Log(l.log, "info", "loaded config")
        r == csv_read(l.cfg, src, lg)
        none == [columns |-> <<>>, rows |-> <<>>, index |-> <<>>]
    IN  IF l.exc # ""
        THEN [cfg |-> l.cfg, cfg_file |-> "", files |-> l.files, log |-> l.log,
              df |-> none, exc |-> l.exc]
        ELSE IF IsNone(l.cfg, "input_file_profile") \/ IsNone(l.cfg, "output_file_profile")
        THEN [cfg |-> l.cfg, cfg_file |-> l.cfg_file, files |-> l.files, log |-> lg,
              df |-> none, exc |-> "TypeError"]
        ELSE [cfg |-> l.cfg, cfg_file |-> l.cfg_file, files |-> l.files, log |-> r.log,
              df |-> r.df, exc |-> r.exc]

\* ------------------------------------------------------------------- state
VARIABLES
    pc,          \* the statement of run_command_line, or of the window's
                 \* LongTaskThread, to run next
    step,        \* the call of run_all_cleaners to run next
    config_file, \* the requested specification file
    fs,          \* the files: path -> [st, json]
    source,      \* the delimited source: [ok, columns, raw]
    cfg,         \* self.cfg
    cfg_file,    \* self.cfg_file
    df,          \* self.df
    df_changed,  \* self.df_changed, the Mutation flag
    log,         \* the audit trail
    calls,       \* the stages run_all_cleaners has called, in order
    profiles,    \* the files html_profile has returned, in order
    written,     \* what csv_write_clean wrote: <<>> or <<file, table>>
    raised,      \* the exception that ended the run, "" when none
    window       \* the CleanerCSVWindow: its two buttons, self.cleaner and
                 \* self.long_task_thread

vars == <<pc, step, config_file, fs, source, cfg, cfg_file, df, df_changed, log,
          calls, profiles, written, raised, window>>

\* self.long_task_thread is None
NoThread == [id |-> 0, info |-> ""]

\* no window: the program was started with a specification file to run
NoWindow ==
    [spec_load_button |-> FALSE, cleaner_launch_button |-> FALSE,
     cleaner |-> 0, long_task_thread |-> NoThread]

\* a toggle_buttons_enabled that leaves "Load specs" as it is
toggle_cleaner_launch_only(w, set_to) ==
    [w EXCEPT !.cleaner_launch_button = set_to]

\* toggle_buttons_enabled(set_to)
toggle_buttons_enabled(w, set_to) ==
    [w EXCEPT !.spec_load_button = set_to, !.cleaner_launch_button = set_to]

\* where control goes when the running task returns: to the emit of
\* LongTaskThread.run, or to the next statement of run_command_line
AfterTask(w, then) == IF w.long_task_thread = NoThread THEN then ELSE "emit"

\* a run_all_cleaners that casts before it parses the datetimes
StageOrderCastsFirst ==
    <<"clean_headers", "clean_drop_dupplicates", "clean_numeric_columns",
      "astype_int", "astype_float", "astype_str", "clean_datetime_columns",
      "clean_drop_na", "drop_columns", "clean_quantile_outliers">>

\* run_all_cleaners: the calls, in the order of its body
StageOrder ==
    <<"clean_headers", "clean_drop_dupplicates", "clean_numeric_columns",
      "clean_datetime_columns", "astype_int", "astype_float", "astype_str",
      "clean_drop_na", "drop_columns", "clean_quantile_outliers">>

\* ------------------------------------------------------------------ inputs
\* a specification with every stage switched off and every column list empty
QuietCfg ==
    [DEFAULT_CFG EXCEPT !["drop_repeat_headers"] = FALSE,
                        !["drop_duplicates"] = FALSE,
                        !["drop_na"] = FALSE,
                        !["clean_types"] = FALSE,
                        !["str_col"] = <<>>,
                        !["numeric_col"] = <<>>,
                        !["datetime_col"] = <<>>,
                        !["datetime_format"] = <<>>]

\* specifications that vary the boolean stages, drop_col and
\* quantile_ouliers_col ("Z" names no column of any table)
StageCfgs ==
    {[QuietCfg EXCEPT !["drop_repeat_headers"] = h,
                      !["drop_duplicates"] = u,
                      !["drop_na"] = n,
                      !["clean_types"] = t,
                      !["drop_col"] = dc,
                      !["quantile_ouliers_col"] = q] :
        h \in BOOLEAN, u \in BOOLEAN, n \in BOOLEAN, t \in BOOLEAN,
        dc \in {<<>>, <<"B">>, <<"Z", "B">>},
        q \in {<<>>, <<"A">>, <<"Z">>}}

\* specifications that vary the column lists of the type stages
DatetimePairs ==
    {<<<<>>, <<>>>>, <<<<>>, <<"%d">>>>, <<<<"A">>, <<"%d">>>>,
     <<<<"A", "B">>, <<"%d">>>>, <<<<"B">>, <<"%d", "%d">>>>, <<<<"Z">>, <<"%d">>>>}

TypeCfgs ==
    {[QuietCfg EXCEPT !["clean_types"] = TRUE,
                      !["numeric_col"] = nc,
                      !["int_col"] = ic,
                      !["float_col"] = fc,
                      !["str_col"] = sc,
                      !["datetime_col"] = dt[1],
                      !["datetime_format"] = dt[2]] :
        nc \in {<<>>, <<"A">>, <<"Z">>},
        ic \in {<<>>, <<"A", "B">>, <<"Z">>},
        fc \in {<<>>, <<"A">>},
        sc \in {<<>>, <<"B">>},
        dt \in DatetimePairs}

\* the rows of the delimited sources, as texts ("" is an empty field)
RowSet ==
    {<<"A", "B">>, <<"1", "2">>, <<"x", "1">>, <<"", "">>, <<"2", "">>}

RECURSIVE Tables(_)
Tables(n) ==
    IF n = 0 THEN {<<>>}
    ELSE Tables(n - 1) \cup
         {Append(t, r) : t \in {u \in Tables(n - 1) : Len(u) = n - 1}, r \in RowSet}

Sources ==
    {[ok |-> TRUE, columns |-> <<"A", "B">>, raw |-> t] : t \in Tables(MaxRows)}
    \cup {[ok |-> FALSE, columns |-> <<>>, raw |-> <<>>]}

NoFile == [st |-> "missing", json |-> <<>>]
BadFile == [st |-> "malformed", json |-> <<>>]
File(c) == [st |-> "valid", json |-> c]

TypeOK ==
    /\ pc \in {"construct", "html_profile_1", "run_all_cleaners", "html_profile_2",
               "csv_write_clean", "done", "raised", "idle", "emit", "emitted"}
    /\ step \in 1..(Len(StageOrder) + 1)
    /\ df_changed \in BOOLEAN
    /\ \A r \in 1..Len(df.rows) : Len(df.rows[r]) = Len(df.columns)
    /\ (raised # "") = (pc = "raised")
    /\ window.spec_load_button \in BOOLEAN
    /\ window.cleaner_launch_button \in BOOLEAN
    /\ window.cleaner \in Nat
    /\ window.long_task_thread.id \in Nat
    /\ window.long_task_thread.info \in {"", "Source data profiler", "Cleaning Tasks"}

\* no CleanerCSV has been constructed
Blank ==
    /\ step = 1
    /\ cfg = <<>>
    /\ cfg_file = ""
    /\ df = [columns |-> <<>>, rows |-> <<>>, index |-> <<>>]
    /\ df_changed = FALSE
    /\ log = <<>>
    /\ calls = <<>>
    /\ profiles = <<>>
    /\ written = <<>>
    /\ raised = ""

\* the state before CleanerCSV(config_file) in run_command_line
Start ==
    /\ pc = "construct"
    /\ window = NoWindow
    /\ Blank

\* a readable specification file of the user's, default_specs.json absent
Init ==
    /\ Start
    /\ config_file = UserSpecs
    /\ \E c \in StageCfgs \cup TypeCfgs :
          fs = [p \in {UserSpecs, DefaultSpecs} |->
                  IF p = UserSpecs THEN File(c) ELSE NoFile]
    /\ source \in Sources

\* ----------------------------------------------------------------- actions
\* cleaner = CleanerCSV(config_file)
Construct ==
    /\ pc = "construct"
    /\ LET r == CleanerCSV_init(fs, config_file, source)
       IN  /\ cfg' = r.cfg
           /\ cfg_file' = r.cfg_file
           /\ fs' = r.files
           /\ log' = r.log
           /\ df' = r.df
           /\ raised' = r.exc
           /\ pc' = IF r.exc = "" THEN "html_profile_1" ELSE "raised"
    /\ df_changed' = FALSE
    /\ UNCHANGED <<step, config_file, source, calls, profiles, written, window>>

\* cleaner.html_profile(), before and after run_all_cleaners (in the window:
\* the task of the "Source data profiler" thread, and the second call of
\* cleaning_tasks)
HtmlProfile ==
    /\ pc \in {"html_profile_1", "html_profile_2"}
    /\ LET r == html_profile(cfg, Parent(config_file), df_changed, log)
       IN  /\ log' = r.log
           /\ raised' = r.exc
           /\ profiles' = IF r.exc = "" THEN Append(profiles, r.file) ELSE profiles
           /\ pc' = IF r.exc # "" THEN "raised"
                    ELSE IF pc = "html_profile_1"
                    THEN AfterTask(window, "run_all_cleaners")
                    ELSE "csv_write_clean"
    /\ UNCHANGED <<step, config_file, fs, source, cfg, cfg_file, df, df_changed,
                   calls, written, window>>

\* one call of run_all_cleaners: the stage named name left r behind
Call(name, r) ==
    /\ pc = "run_all_cleaners"
    /\ StageOrder[step] = name
    /\ df' = r.df
    /\ df_changed' = r.df_changed
    /\ log' = r.log
    /\ raised' = r.exc
    /\ calls' = Append(calls, name)
    /\ step' = step + 1
    /\ pc' = IF r.exc # "" THEN "raised"
             ELSE IF step = Len(StageOrder) THEN "html_profile_2"
             ELSE pc
    /\ UNCHANGED <<config_file, fs, source, cfg, cfg_file, profiles, written,
                   window>>

CleanHeaders == Call("clean_headers", clean_headers(cfg, df, df_changed, log))

CleanDropDupplicates ==
    Call("clean_drop_dupplicates", clean_drop_dupplicates(cfg, df, df_changed, log))

CleanNumericColumns ==
    Call("clean_numeric_columns", clean_numeric_columns(cfg, df, df_changed, log))

CleanDatetimeColumns ==
    Call("clean_datetime_columns", clean_datetime_columns(cfg, df, df_changed, log))

AstypeInt == Call("astype_int", run_astype_conversion(cfg, df, df_changed, log, "int"))

AstypeFloat ==
    Call("astype_float", run_astype_conversion(cfg, df, df_changed, log, "float"))

AstypeStr == Call("astype_str", run_astype_conversion(cfg, df, df_changed, log, "str"))

CleanDropNa == Call("clean_drop_na", clean_drop_na(cfg, df, df_changed, log))

DropColumns == Call("drop_columns", drop_columns(cfg, df, df_changed, log))

CleanQuantileOutliers ==
    Call("clean_quantile_outliers", clean_quantile_outliers(cfg, df, df_changed, log))

\* cleaner.csv_write_clean(); the target may turn out not to be writable
CsvWriteClean ==
    /\ pc = "csv_write_clean"
    /\ \E ok \in BOOLEAN :
          LET r == csv_write_clean(cfg, Parent(config_file), df, log, ok)
          IN  /\ log' = r.log
              /\ raised' = r.exc
              /\ written' = r.out
              /\ pc' = IF r.exc = "" THEN AfterTask(window, "done") ELSE "raised"
    /\ UNCHANGED <<step, config_file, fs, source, cfg, cfg_file, df, df_changed,
                   calls, profiles, window>>

Next ==
    \/ Construct
    \/ HtmlProfile
    \/ CleanHeaders
    \/ CleanDropDupplicates
    \/ CleanNumericColumns
    \/ CleanDatetimeColumns
    \/ AstypeInt
    \/ AstypeFloat
    \/ AstypeStr
    \/ CleanDropNa
    \/ DropColumns
    \/ CleanQuantileOutliers
    \/ CsvWriteClean

Spec == Init /\ [][Next]_vars

\* ------------------------------------------------- inputs of the construction
\* a specification that names every recognized key and runs on the tables
FullCfg ==
    [DEFAULT_CFG EXCEPT !["str_col"] = <<"B">>,
                        !["numeric_col"] = <<"A">>,
                        !["datetime_col"] = <<"B">>,
                        !["datetime_format"] = <<"%d">>,
                        !["drop_col"] = <<"B">>,
                        !["quantile_ouliers_col"] = <<"A">>]

\* the dict json.load gives for a file that leaves the keys ks out
Without(c, ks) == [k \in DOMAIN c \ ks |-> c[k]]

LoadCfgs == {Without(FullCfg, {})} \cup {Without(FullCfg, {k}) : k \in Keys}
            \cup {Without(FullCfg, Keys)}

\* a source with the columns DEFAULT_CFG names
DefaultSource ==
    [ok |-> TRUE,
     columns |-> <<"Order ID", "Quantity Ordered", "Price Each", "Order Date",
                   "Product", "Purchase Address">>,
     raw |-> <<<<"1", "2", "3", "x", "x", "x">>>>]

\* any requested file (the user's or default_specs.json itself; readable,
\* missing or malformed) and any default_specs.json
InitLoad ==
    /\ Start
    /\ config_file \in {UserSpecs, DefaultSpecs}
    /\ \E req \in {File(c) : c \in LoadCfgs} \cup {NoFile, BadFile},
          def \in {File(DEFAULT_CFG), NoFile, BadFile} :
          fs = [p \in {UserSpecs, DefaultSpecs} |->
                  IF p = config_file THEN req
                  ELSE IF p = DefaultSpecs THEN def ELSE NoFile]
    /\ source \in Sources \cup {DefaultSource}

SpecLoad == InitLoad /\ [][Next]_vars

\* -------------------------------------------------------------- the window
\* the most CleanerCSV objects, and the most LongTaskThreads, of one session
MaxCleaners == 2
MaxThreads == 3

\* attach_cleaner(full_file_name), the whole handler: the buttons are locked,
\* the old CleanerCSV is released and a new one constructed; when the
\* default specification was loaded instead, the user may bail out (yes is
\* the answer to "Run default spec?"); otherwise the "Source data profiler"
\* thread is started.  An exception of the constructor leaves the handler
\* with the buttons locked and self.cleaner None.
attach_cleaner(full_file_name, yes) ==
    LET r == CleanerCSV_init(fs, full_file_name, source)
        locked == toggle_buttons_enabled(window, FALSE)
        attached == [locked EXCEPT !.cleaner = window.cleaner + 1]
        bail == r.exc = "" /\ full_file_name # r.cfg_file /\ ~yes
    IN  /\ config_file' = full_file_name
        /\ cfg' = r.cfg
        /\ cfg_file' = r.cfg_file
        /\ fs' = r.files
        /\ log' = r.log
        /\ df' = r.df
        /\ df_changed' = FALSE
        /\ raised' = r.exc
        /\ step' = 1
        /\ calls' = <<>>
        /\ window' =
              IF r.exc # "" THEN [locked EXCEPT !.cleaner = 0]
              ELSE IF bail THEN toggle_buttons_enabled(attached, TRUE)
              ELSE [attached EXCEPT !.long_task_thread =
                       [id |-> window.long_task_thread.id + 1,
                        info |-> "Source data profiler"]]
        /\ pc' = IF r.exc # "" THEN "raised"
                 ELSE IF bail THEN "idle"
                 ELSE "html_profile_1"
        /\ UNCHANGED <<source, profiles, written>>

\* a click on "Load specs" and the choice of a file in the dialog
OnSpecLoadClick ==
    /\ window.spec_load_button
    /\ window.cleaner < MaxCleaners
    /\ window.long_task_thread.id < MaxThreads
    /\ \E full_file_name \in DOMAIN fs, yes \in BOOLEAN :
          attach_cleaner(full_file_name, yes)

\* a click on "Clean data": the buttons are locked and the "Cleaning Tasks"
\* thread is started; its task, cleaning_tasks, begins with
\* self.cleaner.run_all_cleaners() (an AttributeError when self.cleaner is
\* None)
OnCleanerLaunchClick ==
    /\ window.cleaner_launch_button
    /\ window.long_task_thread.id < MaxThreads
    /\ window' = [toggle_buttons_enabled(window, FALSE)
                    EXCEPT !.long_task_thread =
                              [id |-> window.long_task_thread.id + 1,
                               info |-> "Cleaning Tasks"]]
    /\ pc' = IF window.cleaner = 0 THEN "raised" ELSE "run_all_cleaners"
    /\ raised' = IF window.cleaner = 0 THEN "AttributeError" ELSE ""
    /\ step' = 1
    /\ calls' = <<>>
    /\ UNCHANGED <<config_file, fs, source, cfg, cfg_file, df, df_changed, log,
                   profiles, written>>

\* the last statement of LongTaskThread.run: long_task_done.emit(...), which
\* queues the handler in the window's thread
LongTaskEmit ==
    /\ pc = "emit"
    /\ pc' = "emitted"
    /\ UNCHANGED <<step, config_file, fs, source, cfg, cfg_file, df, df_changed,
                   log, calls, profiles, written, raised, window>>

\* a handler of long_task_done: the buttons are unlocked
OnLongTaskDone(info) ==
    /\ pc = "emitted"
    /\ window.long_task_thread.info = info
    /\ window' = toggle_buttons_enabled(window, TRUE)
    /\ pc' = "idle"
    /\ UNCHANGED <<step, config_file, fs, source, cfg, cfg_file, df, df_changed,
                   log, calls, profiles, written, raised>>

OnLongTaskInputProfiler == OnLongTaskDone("Source data profiler")

OnLongTaskCleaning == OnLongTaskDone("Cleaning Tasks")

NextGui ==
    \/ OnSpecLoadClick
    \/ OnCleanerLaunchClick
    \/ HtmlProfile
    \/ CleanHeaders
    \/ CleanDropDupplicates
    \/ CleanNumericColumns
    \/ CleanDatetimeColumns
    \/ AstypeInt
    \/ AstypeFloat
    \/ AstypeStr
    \/ CleanDropNa
    \/ DropColumns
    \/ CleanQuantileOutliers
    \/ CsvWriteClean
    \/ LongTaskEmit
    \/ OnLongTaskInputProfiler
    \/ OnLongTaskCleaning

\* the specifications of a session: one with every stage on that changes the
\* table, one with every stage off, one whose numeric stage meets an absent
\* column, one that casts, and one that stores nothing
GuiCfgs ==
    {QuietCfg,
     [QuietCfg EXCEPT !["drop_repeat_headers"] = TRUE,
                      !["drop_duplicates"] = TRUE,
                      !["drop_na"] = TRUE,
                      !["clean_types"] = TRUE,
                      !["numeric_col"] = <<"A">>],
     [QuietCfg EXCEPT !["clean_types"] = TRUE, !["numeric_col"] = <<"Z">>],
     [QuietCfg EXCEPT !["clean_types"] = TRUE,
                      !["datetime_col"] = <<"A">>,
                      !["datetime_format"] = <<"%d">>,
                      !["int_col"] = <<"A">>,
                      !["str_col"] = <<"A", "B">>],
     [QuietCfg EXCEPT !["drop_repeat_headers"] = TRUE,
                      !["export_output_file"] = FALSE,
                      !["drop_col"] = <<"B">>]}

GuiSources ==
    {[ok |-> TRUE, columns |-> <<"A", "B">>, raw |-> t] :
        t \in {<<>>, <<<<"1", "2">>>>, <<<<"A", "B">>, <<"1", "2">>>>,
               <<<<"x", "1">>, <<"x", "1">>>>, <<<<"", "">>, <<"2", "">>>>}}
    \cup {[ok |-> FALSE, columns |-> <<>>, raw |-> <<>>]}

\* the window after CleanerCSVWindow(): "Load specs" enabled, "Clean data"
\* disabled, no cleaner and no thread
InitGui ==
    /\ pc = "idle"
    /\ window = [spec_load_button |-> TRUE, cleaner_launch_button |-> FALSE,
                 cleaner |-> 0, long_task_thread |-> NoThread]
    /\ Blank
    /\ config_file = ""
    /\ \E user \in {File(c) : c \in GuiCfgs} \cup {BadFile},
          def \in {File(QuietCfg), NoFile} :
          fs = [p \in {UserSpecs, DefaultSpecs} |->
                  IF p = UserSpecs THEN user ELSE def]
    /\ source \in GuiSources

SpecGui == InitGui /\ [][NextGui]_vars

\* ------------------------------------------------------------------ claims
IsPrefix(a, b) == Len(a) <= Len(b) /\ SubSeq(b, 1, Len(a)) = a

\* run_all_cleaners has returned
Ran == pc \in {"html_profile_2", "csv_write_clean", "done"} \/
       (pc = "raised" /\ Len(profiles) = 2)

\* the table as ingested
Ingested == read_csv(source.columns, source.raw)

\* the files html_profile resolves the two profile keys to
InputProfile == Join(Parent(config_file), cfg["input_file_profile"])
OutputProfile == Join(Parent(config_file), cfg["output_file_profile"])

AnyBooleanStage ==
    \/ Truthy(cfg, "drop_repeat_headers")
    \/ Truthy(cfg, "drop_duplicates")
    \/ Truthy(cfg, "clean_types")
    \/ Truthy(cfg, "drop_na")

\* C1, as claimed: the calls of run_all_cleaners follow the order header-repeat
\* removal, duplicate removal, numeric coercion, the casts int, float and
\* str, datetime parsing, missing-row removal, column removal, quantile
\* outlier removal, so that datetime parsing never runs before a cast.
C1_ClaimedOrder ==
    /\ IsPrefix(calls,
         <<"clean_headers", "clean_drop_dupplicates", "clean_numeric_columns",
           "astype_int", "astype_float", "astype_str", "clean_datetime_columns",
           "clean_drop_na", "drop_columns", "clean_quantile_outliers">>)
    /\ \A i, j \in 1..Len(calls) :
          (calls[i] = "clean_datetime_columns"
             /\ calls[j] \in {"astype_int", "astype_float", "astype_str"}) => j < i

\* C1, amended: in every run the calls made so far are a prefix of the order
\* header-repeat removal, duplicate removal, numeric coercion, datetime
\* parsing, the casts int, float and str, missing-row removal, column
\* removal, quantile outlier removal, and a run_all_cleaners that returned
\* made all ten; datetime parsing runs before every cast.
C1_StageOrder ==
    /\ IsPrefix(calls,
         <<"clean_headers", "clean_drop_dupplicates", "clean_numeric_columns",
           "clean_datetime_columns", "astype_int", "astype_float", "astype_str",
           "clean_drop_na", "drop_columns", "clean_quantile_outliers">>)
    /\ Ran => Len(calls) = 10
    /\ \A i, j \in 1..Len(calls) :
          (calls[i] = "clean_datetime_columns"
             /\ calls[j] \in {"astype_int", "astype_float", "astype_str"}) => i < j

\* a run that parsed a datetime column and then cast columns, to the end
C1_Witness ==
    /\ pc = "done"
    /\ Len(calls) = 10
    /\ ~Empty(cfg, "datetime_col")
    /\ ~Empty(cfg, "int_col")
    /\ \E r \in 1..Len(df.rows) : df.rows[r][1].k = "int"
    /\ \E e \in 1..Len(log) : log[e] = <<"info", "running to_datetime">>

\* C2: when run_all_cleaners has returned and the table differs from the
\* ingested one (in a cell, its rows or its columns), df_changed is true.
C2_ChangedTableSetsFlag ==
    (Ran /\ df # Ingested) => df_changed

\* the option or column list that makes a stage a pure no-op
NoOp(name) ==
    CASE name = "clean_headers" -> ~Truthy(cfg, "drop_repeat_headers")
      [] name = "clean_drop_dupplicates" -> ~Truthy(cfg, "drop_duplicates")
      [] name = "clean_numeric_columns" ->
            ~Truthy(cfg, "clean_types") \/ Empty(cfg, "numeric_col")
      [] name = "clean_datetime_columns" ->
            ~Truthy(cfg, "clean_types") \/ Empty(cfg, "datetime_col")
      [] name = "astype_int" -> ~Truthy(cfg, "clean_types") \/ Empty(cfg, "int_col")
      [] name = "astype_float" ->
            ~Truthy(cfg, "clean_types") \/ Empty(cfg, "float_col")
      [] name = "astype_str" -> ~Truthy(cfg, "clean_types") \/ Empty(cfg, "str_col")
      [] name = "clean_drop_na" -> ~Truthy(cfg, "drop_na")
      [] name = "drop_columns" -> Empty(cfg, "drop_col")
      [] OTHER -> Empty(cfg, "quantile_ouliers_col")

\* C3: a stage that is disabled by its option, or whose column list is
\* empty, leaves df_changed as it was.
C3_NoOpKeepsFlag ==
    [][(pc = "run_all_cleaners" /\ NoOp(StageOrder[step]))
          => df_changed' = df_changed]_vars

\* C4: every file html_profile has returned is the input_file_profile path
\* exactly when df_changed was false at the call and the output_file_profile
\* path exactly when it was true, both under the specification's directory
\* (the flag is false at the first call and does not change after the second).
C4_ProfileTarget ==
    /\ Len(profiles) >= 1 => profiles[1] = InputProfile /\ profiles[1] # OutputProfile
    /\ Len(profiles) = 2 =>
          /\ (profiles[2] = InputProfile) = ~df_changed
          /\ (profiles[2] = OutputProfile) = df_changed
    /\ \A i \in 1..Len(profiles) : profiles[i][1] = Parent(config_file)

\* both calls were made, the second one on a changed table
C4_Witness ==
    /\ Len(profiles) = 2
    /\ df_changed
    /\ profiles = <<InputProfile, OutputProfile>>

\* C5, as claimed: the two html_profile calls of the command-line sequence
\* return two distinct files, the first input_file_profile and the second
\* output_file_profile, whatever the specification.
C5_TwoDistinctArtifacts ==
    Len(profiles) = 2 =>
        /\ profiles[1] = InputProfile
        /\ profiles[2] = OutputProfile
        /\ profiles[1] # profiles[2]

\* C5, amended: the first call returns input_file_profile; the second returns
\* output_file_profile, a distinct file, exactly when one of
\* drop_repeat_headers, drop_duplicates, clean_types and drop_na is enabled,
\* and input_file_profile again when none is.
C5_SecondProfileTarget ==
    Len(profiles) = 2 =>
        /\ profiles[1] = InputProfile
        /\ AnyBooleanStage => profiles[2] = OutputProfile /\ profiles[2] # profiles[1]
        /\ ~AnyBooleanStage => profiles[2] = profiles[1]

\* the sequence ran with drop_na alone enabled: two distinct files
C5_Witness ==
    /\ Len(profiles) = 2
    /\ Truthy(cfg, "drop_na")
    /\ ~Truthy(cfg, "drop_repeat_headers")
    /\ ~Truthy(cfg, "drop_duplicates")
    /\ ~Truthy(cfg, "clean_types")
    /\ profiles[2] # profiles[1]

\* the construction fell back to the default specification
FellBack ==
    \E e \in 1..Len(log) :
        log[e] \in {<<"warning", "config not found">>,
                    <<"warning", "config file is not valid JSON">>}

\* C6: once a specification file has been parsed, the lookup of every
\* recognized key gives the user's value or the key's default, never None,
\* and no TypeError from a None ends the construction.
C6_LookupGivesDefault ==
    (pc # "construct" /\ fs[config_file].st = "valid" /\ ~FellBack) =>
        /\ \A key \in Keys : ~IsNone(cfg, key)
        /\ \A key \in Keys :
              key \notin DOMAIN fs[config_file].json => cfg[key] = DEFAULT_CFG[key]
        /\ ~(raised = "TypeError" /\ calls = <<>>)

\* C7: when the requested file is missing or no JSON, the construction does
\* not raise because of the configuration, the built-in default is in use
\* and cfg_file differs from the requested path.
C7_FallbackReported ==
    pc # "construct" =>
        /\ raised # "JSONDecodeError"
        /\ FellBack => cfg = DEFAULT_CFG /\ cfg_file # config_file

\* C8: after a successful ingestion run_all_cleaners returns: no stage ends
\* the run with an exception (the first html_profile has returned and the
\* second has not been called).
C8_RunAllCleanersReturns ==
    ~(pc = "raised" /\ Len(profiles) = 1)

\* the columns a cast stage is asked to cast
CastCols(type_str) == cfg[ColsChoice(type_str)]

\* a call of run_astype_conversion(type_str) that casts: clean_types is on
\* and the listed columns are columns of the table
Casting(type_str) ==
    /\ pc = "run_all_cleaners"
    /\ StageOrder[step] = "astype_" \o type_str
    /\ Truthy(cfg, "clean_types")
    /\ ~Empty(cfg, ColsChoice(type_str))
    /\ \A i \in 1..Len(CastCols(type_str)) : HasCol(df, CastCols(type_str)[i])

\* C9: in a cast stage a column whose cast fails keeps its values, with an
\* error logged, every other listed column is cast, no exception surfaces
\* and the next stage runs.
C9_CastFailureIsolated ==
    [][\A type_str \in {"int", "float", "str"} :
          Casting(type_str) =>
             /\ raised' = ""
             /\ pc' # "raised"
             /\ \A i \in 1..Len(CastCols(type_str)) :
                   LET col == CastCols(type_str)[i]
                   IN  IF AsTypeError(Column(df, col), type_str) # ""
                       THEN /\ Column(df', col) = Column(df, col)
                            /\ \E e \in (Len(log) + 1)..Len(log') :
                                  log'[e] = <<"error", "converting column failed">>
                       ELSE Column(df', col) = astype(Column(df, col), type_str)]_vars

\* a call of clean_datetime_columns with clean_types on and two lists of
\* different lengths
Mismatch ==
    /\ pc = "run_all_cleaners"
    /\ StageOrder[step] = "clean_datetime_columns"
    /\ Truthy(cfg, "clean_types")
    /\ ~IsNone(cfg, "datetime_col")
    /\ ~IsNone(cfg, "datetime_format")
    /\ Len(cfg["datetime_col"]) # Len(cfg["datetime_format"])

\* C10, as claimed: on a length mismatch the datetime stage changes no cell,
\* logs a warning and the remaining stages run.
C10_MismatchSkipsWithWarning ==
    [][Mismatch =>
          /\ df' = df
          /\ log' = Append(log, <<"warning", "skipping datetime step">>)
          /\ raised' = ""
          /\ pc' = "run_all_cleaners"]_vars

\* C10, amended: on a length mismatch the datetime stage changes no cell and
\* not the Mutation flag, and the remaining stages run; the warning is logged
\* when datetime_col is not empty, and nothing is logged when it is empty.
C10_MismatchSkips ==
    [][Mismatch =>
          /\ df' = df
          /\ df_changed' = df_changed
          /\ raised' = ""
          /\ pc' = "run_all_cleaners"
          /\ step' = step + 1
          /\ log' = IF cfg["datetime_col"] # <<>>
                    THEN Append(log, <<"warning", "skipping datetime step">>)
                    ELSE log]_vars

\* the datetime stage was skipped with the warning, on a table whose listed
\* column holds a text the format parses, and the next stage has run
C10_Witness ==
    /\ Len(calls) >= 5
    /\ Truthy(cfg, "clean_types")
    /\ Len(cfg["datetime_col"]) > Len(cfg["datetime_format"])
    /\ \E e \in 1..Len(log) : log[e] = <<"warning", "skipping datetime step">>
    /\ HasCol(df, cfg["datetime_col"][1])
    /\ \E r \in 1..Len(df.rows) :
          ParsesAs("%d", CellText(df.rows[r][ColIdx(df, cfg["datetime_col"][1])]))

\* ------------------------------------------------- inputs of the net effect
\* specifications with the four boolean stages on and drop_col naming
\* column B, over every choice of the other column lists for column A
EndCfgs ==
    {[QuietCfg EXCEPT !["drop_repeat_headers"] = TRUE,
                      !["drop_duplicates"] = TRUE,
                      !["drop_na"] = TRUE,
                      !["clean_types"] = TRUE,
                      !["drop_col"] = <<"B">>,
                      !["numeric_col"] = nc,
                      !["int_col"] = ic,
                      !["str_col"] = sc,
                      !["datetime_col"] = dt[1],
                      !["datetime_format"] = dt[2]] :
        nc \in {<<>>, <<"A">>},
        ic \in {<<>>, <<"A">>},
        sc \in {<<>>, <<"A">>},
        dt \in {<<<<>>, <<>>>>, <<<<"A">>, <<"%d">>>>}}

InitEnd ==
    /\ Start
    /\ config_file = UserSpecs
    /\ \E c \in EndCfgs :
          fs = [p \in {UserSpecs, DefaultSpecs} |->
                  IF p = UserSpecs THEN File(c) ELSE NoFile]
    /\ source \in Sources

SpecEnd == InitEnd /\ [][Next]_vars

\* the row of the ingested table with label i is still in the table
Survives(i) == \E r \in 1..Len(df.index) : df.index[r] = i

\* the cell of the row with label i in column col of the table
CellOf(i, col) ==
    df.rows[CHOOSE r \in 1..Len(df.index) : df.index[r] = i][ColIdx(df, col)]

\* C11: with the four boolean stages on and drop_col naming column B, the
\* table run_all_cleaners leaves behind holds no row with a cell equal to
\* its own column's name, no row that was entirely missing when ingested,
\* at most one of any two equal ingested rows, a missing value for every
\* unparsable cell of a numeric_col column, and no column B, whatever the
\* other column lists are
C11_NetEffect ==
    (/\ Ran
     /\ Truthy(cfg, "drop_repeat_headers") /\ Truthy(cfg, "drop_duplicates")
     /\ Truthy(cfg, "drop_na") /\ Truthy(cfg, "clean_types")
     /\ cfg["drop_col"] = <<"B">>)
    => LET n == Len(Ingested.rows)
       IN  /\ \A r \in 1..Len(df.rows) : ~IsHeaderRow(df, df.rows[r])
           /\ \A i \in 1..n :
                 (\A c \in 1..Len(Ingested.columns) : IsNA(Ingested.rows[i][c]))
                 => ~Survives(i - 1)
           /\ \A i, j \in 1..n :
                 (i < j /\ Ingested.rows[i] = Ingested.rows[j])
                 => ~(Survives(i - 1) /\ Survives(j - 1))
           /\ \A i \in 1..n : \A k \in 1..Len(cfg["numeric_col"]) :
                 LET col == cfg["numeric_col"][k]
                 IN  (/\ Survives(i - 1)
                      /\ HasCol(df, col)
                      /\ Column(Ingested, col)[i].k = "str"
                      /\ ~IsIntText(Column(Ingested, col)[i].s)
                      /\ ~IsFloatText(Column(Ingested, col)[i].s))
                     => IsNA(CellOf(i - 1, col))
           /\ ~HasCol(df, "B")

\* ---------------------------------------------- inputs of the quantile stage
\* the largest number of rows of a table of numbers
MaxQRows == 5

\* rows of numbers; an empty field is a NaN of its column
QRowSet == {<<"1", "1">>, <<"1", "2">>, <<"2", "1">>, <<"", "2">>}

RECURSIVE QTables(_)
QTables(n) ==
    IF n = 0 THEN {<<>>}
    ELSE QTables(n - 1) \cup
         {Append(t, r) : t \in {u \in QTables(n - 1) : Len(u) = n - 1}, r \in QRowSet}

\* only the quantile stage is on, over one column or over both in either
\* order
QuantileCfgs ==
    {[QuietCfg EXCEPT !["quantile_ouliers_col"] = q] :
        q \in {<<"A">>, <<"A", "B">>, <<"B", "A">>}}

InitQuantile ==
    /\ Start
    /\ config_file = UserSpecs
    /\ \E c \in QuantileCfgs :
          fs = [p \in {UserSpecs, DefaultSpecs} |->
                  IF p = UserSpecs THEN File(c) ELSE NoFile]
    /\ \E t \in QTables(MaxQRows) :
          source = [ok |-> TRUE, columns |-> <<"A", "B">>, raw |-> t]

SpecQuantile == InitQuantile /\ [][Next]_vars

\* the step is the call of clean_quantile_outliers with a non-empty list
QuantileStep ==
    /\ pc = "run_all_cleaners"
    /\ step <= Len(StageOrder)
    /\ StageOrder[step] = "clean_quantile_outliers"
    /\ ~Empty(cfg, "quantile_ouliers_col")

\* C12: the quantile stage folds over quantile_ouliers_col in list order:
\* for the list [X, Y] the table it leaves is the table filtered by X's
\* bounds and then by Y's bounds computed over the rows that survived X, and
\* the labels of the rows it leaves are among those that survived X
C12_CumulativeFold ==
    [][(QuantileStep /\ Len(cfg["quantile_ouliers_col"]) = 2)
       => LET X == cfg["quantile_ouliers_col"][1]
              Y == cfg["quantile_ouliers_col"][2]
              afterX == TakeRows(df, ValidRows(Column(df, X)))
              afterY == TakeRows(afterX, ValidRows(Column(afterX, Y)))
          IN  /\ df' = afterY
              /\ \A r \in 1..Len(df'.index) :
                    \E q \in 1..Len(afterX.index) : afterX.index[q] = df'.index[r]]_vars

\* a fold whose second column kept rows although its bounds over the whole
\* table admit none
C12_Witness ==
    /\ Ran
    /\ cfg["quantile_ouliers_col"] = <<"A", "B">>
    /\ df.rows # <<>>
    /\ Len(df.rows) < Len(Ingested.rows)
    /\ ValidRows(Column(Ingested, "B")) = {}

\* C17: for the first listed column, with quartiles Q1 and Q3 of its current
\* values, a row is kept only if Q1 + 1.5 (Q3 - Q1) <= v <= Q3 - 1.5 (Q3 - Q1);
\* when Q1 < Q3 the stage leaves no row, and when Q1 = Q3 and the column is
\* the only one listed it leaves exactly the rows with v = Q1
C17_InvertedBounds ==
    [][QuantileStep
       => LET X == cfg["quantile_ouliers_col"][1]
              cells == Column(df, X)
              vals == Values(cells)
              Q1 == Quantile4(vals, 1)
              Q3 == Quantile4(vals, 3)
              pos(i) == CHOOSE r \in 1..Len(df.index) : df.index[r] = i
              v(i) == cells[pos(i)]
          IN  vals # <<>>
              => /\ \A r \in 1..Len(df'.index) :
                       /\ ~IsNA(v(df'.index[r]))
                       /\ 2 * Q1 + 3 * (Q3 - Q1) <= 8 * v(df'.index[r]).n
                       /\ 8 * v(df'.index[r]).n <= 2 * Q3 - 3 * (Q3 - Q1)
                 /\ Q1 < Q3 => df'.rows = <<>>
                 /\ (Q1 = Q3 /\ Len(cfg["quantile_ouliers_col"]) = 1)
                    => df' = TakeRows(df, {r \in 1..Len(cells) :
                                  ~IsNA(cells[r]) /\ 4 * cells[r].n = Q1})]_vars

\* a column with Q1 < Q3 emptied the table, which was then written
C17_Witness ==
    /\ pc = "done"
    /\ Len(Ingested.rows) > 1
    /\ Quantile4(Values(Column(Ingested, "A")), 1)
         < Quantile4(Values(Column(Ingested, "A")), 3)
    /\ written # <<>>
    /\ written[2].rows = <<>>

\* ------------------------------------------------ inputs of the row stages
\* the largest number of rows of a table with repeated headers and rows
MaxHRows == 3

\* a repeat of the header A,B (and of the header 1,B), the names of A,B
\* exchanged, a row of numbers and an empty row
HRowSet == {<<"A", "B">>, <<"B", "A">>, <<"1", "B">>, <<"1", "2">>, <<"", "">>}

RECURSIVE HTables(_)
HTables(n) ==
    IF n = 0 THEN {<<>>}
    ELSE HTables(n - 1) \cup
         {Append(t, r) : t \in {u \in HTables(n - 1) : Len(u) = n - 1}, r \in HRowSet}

\* header-repeat removal and exact-duplicate removal, each on or off
RowCfgs ==
    {[QuietCfg EXCEPT !["drop_repeat_headers"] = h, !["drop_duplicates"] = u] :
        h \in BOOLEAN, u \in BOOLEAN}

\* tables under the header A,B and under the header 1,B
InitRows ==
    /\ Start
    /\ config_file = UserSpecs
    /\ \E c \in RowCfgs :
          fs = [p \in {UserSpecs, DefaultSpecs} |->
                  IF p = UserSpecs THEN File(c) ELSE NoFile]
    /\ \E t \in HTables(MaxHRows), columns \in {<<"A", "B">>, <<"1", "B">>} :
          source = [ok |-> TRUE, columns |-> columns, raw |-> t]

SpecRows == InitRows /\ [][Next]_vars

\* the step is the call of the stage named name
StageStep(name) ==
    /\ pc = "run_all_cleaners"
    /\ step <= Len(StageOrder)
    /\ StageOrder[step] = name

\* the position in the table of the row with label i
PosOf(d, i) == CHOOSE r \in 1..Len(d.index) : d.index[r] = i

\* C13: exact-duplicate removal leaves exactly one copy of each distinct row
\* of its input, the copy left is the last occurrence, the rows left keep
\* their relative order, and the columns are as they were
C13_KeepLast ==
    [][(StageStep("clean_drop_dupplicates") /\ Truthy(cfg, "drop_duplicates"))
       => /\ df'.columns = df.columns
          /\ \A r \in 1..Len(df.rows) :
                Cardinality({q \in 1..Len(df'.rows) : df'.rows[q] = df.rows[r]}) = 1
          /\ \A q \in 1..Len(df'.rows) :
                /\ \E r \in 1..Len(df.index) : df.index[r] = df'.index[q]
                /\ df.rows[PosOf(df, df'.index[q])] = df'.rows[q]
                /\ \A r \in (PosOf(df, df'.index[q]) + 1)..Len(df.rows) :
                      df.rows[r] # df'.rows[q]
          /\ \A q, r \in 1..Len(df'.rows) :
                q < r => PosOf(df, df'.index[q]) < PosOf(df, df'.index[r])]_vars

\* of three rows the first and the last were equal: the second and the last
\* are left, in that order
C13_Witness ==
    /\ Ran
    /\ Truthy(cfg, "drop_duplicates") /\ ~Truthy(cfg, "drop_repeat_headers")
    /\ Len(Ingested.rows) = 3
    /\ Ingested.rows[1] = Ingested.rows[3]
    /\ df.index = <<1, 2>>

\* the row holds a cell whose text is the name of the cell's own column
TextuallyHeaderRow(d, row) ==
    \E i \in 1..Len(d.columns) : ~IsNA(row[i]) /\ CellText(row[i]) = d.columns[i]

\* C14, as claimed: header-repeat removal removes a row if and only if some
\* cell of the row textually equals the name of that cell's own column
C14_TextualEquality ==
    [][(StageStep("clean_headers") /\ Truthy(cfg, "drop_repeat_headers"))
       => df' = TakeRows(df, {r \in 1..Len(df.rows) :
                                ~TextuallyHeaderRow(df, df.rows[r])})]_vars

\* C14, amended: header-repeat removal removes a row if and only if some
\* cell of the row is a text equal to the name of that cell's own column (a
\* number never equals a name); a row whose cell equals the name of another
\* column, and every other row, is retained
C14_StringEquality ==
    [][(StageStep("clean_headers") /\ Truthy(cfg, "drop_repeat_headers"))
       => df' = TakeRows(df, {r \in 1..Len(df.rows) :
                  ~\E i \in 1..Len(df.columns) :
                      /\ df.rows[r][i].k = "str"
                      /\ df.rows[r][i].s = df.columns[i]})]_vars

\* a header repeat was removed and a row holding the names of the two
\* columns exchanged was retained
C14_Witness ==
    /\ Ran
    /\ Truthy(cfg, "drop_repeat_headers") /\ ~Truthy(cfg, "drop_duplicates")
    /\ df.columns = <<"A", "B">>
    /\ Len(df.rows) < Len(Ingested.rows)
    /\ \E r \in 1..Len(df.rows) : df.rows[r] = <<Str("B"), Str("A")>>

\* ------------------------------------------------------ claims on a session
\* C15: df_changed is false when a CleanerCSV has been constructed, and while
\* self.cleaner stays the same object no step (a stage, html_profile,
\* csv_write_clean, a further run_all_cleaners, a handler) takes it from true
\* back to false
C15_FlagMonotone ==
    [][/\ window'.cleaner # window.cleaner => ~df_changed'
       /\ (window'.cleaner = window.cleaner /\ df_changed) => df_changed']_vars

\* the second "Cleaning Tasks" thread on the same CleanerCSV has run
\* run_all_cleaners again with the flag set
C15_Witness ==
    /\ window.cleaner = 1
    /\ window.long_task_thread = [id |-> 3, info |-> "Cleaning Tasks"]
    /\ pc = "html_profile_2"
    /\ df_changed

\* a LongTaskThread has been started and its long_task_done handler has not
\* run yet
ThreadActive ==
    pc \in {"html_profile_1", "run_all_cleaners", "html_profile_2",
            "csv_write_clean", "emit", "emitted"}

\* C16: from the start of a LongTaskThread until its long_task_done handler
\* has run, "Load specs" and "Clean data" are both disabled, no other
\* LongTaskThread is started and self.cleaner is not replaced
C16_OneUser ==
    [][/\ ThreadActive'
          => ~window'.spec_load_button /\ ~window'.cleaner_launch_button
       /\ ThreadActive
          => /\ window'.long_task_thread = window.long_task_thread
             /\ window'.cleaner = window.cleaner]_vars

\* after a first task had unlocked the buttons, a "Cleaning Tasks" thread
\* has emitted and its handler is still to run, the buttons locked
C16_Witness ==
    /\ pc = "emitted"
    /\ window.long_task_thread = [id |-> 2, info |-> "Cleaning Tasks"]
    /\ ~window.spec_load_button /\ ~window.cleaner_launch_button

====
